---------------------------- MODULE Spec2Model ----------------------------
(***************************************************************************)
(* Adaptive-testing engine of python-backend/app/utils/adaptive_algorithm  *)
(* (class AdaptiveAlgorithm, global instance adaptive_algorithm).          *)
(*                                                                         *)
(* Numbers.  The engine computes in floats.  The model computes in exact   *)
(* rationals <<n, d>> (d > 0, lowest terms).  Item parameters and          *)
(* abilities are drawn from dyadic rationals, for which the Python floats  *)
(* are exact too.  math.exp is irrational away from 0: only exp(0) = 1 is   *)
(* a number of the model.  At a few other arguments the model holds two    *)
(* rationals that enclose the float, which is enough to compare two        *)
(* informations that lie apart; a number that a call returns is never      *)
(* derived from them.  A call whose outcome the model cannot write down    *)
(* yields the outcome "untabulated", which no action of the model admits.  *)
(* math.sqrt is avoided by carrying the standard error as its square.      *)
(*                                                                         *)
(* Outcomes.  A Python call either returns or raises.  An outcome is a     *)
(* record with a field kind: "value" (with field value), "None",           *)
(* "item" (with field item), or the name of the exception raised.          *)
(***************************************************************************)
EXTENDS Integers, Sequences, FiniteSets, TLC

VARIABLES
    question_selection_strategy, \* self.question_selection_strategy
    termination_criteria,        \* self.termination_criteria
    op,                          \* the engine method called last
    args,                        \* the arguments of that call
    result,                      \* its outcome
    newton,                      \* the locals of an estimate_ability call in progress
    question_document,           \* a Question document: psychometrics, usage_stats
    session,                     \* a test session: its history, its pool, the ids administered
    usage_calls,                 \* the caller's tally of its update_usage_stats calls
    adaptive_data                \* an Assessment's adaptive_data

vars == <<question_selection_strategy, termination_criteria, op, args, result,
          newton, question_document, session, usage_calls, adaptive_data>>

---------------------------------------------------------------------------
(* Bounds of the model *)

\* longest run of correct (or of incorrect) responses in a generated history
MaxRun == 5

\* largest candidate pool handed to select_next_question
MaxPool == 3

\* largest batch of responses handed to update_psychometrics
MaxBatch == 3

\* most update_usage_stats calls made on the question document
MaxUses == 2

---------------------------------------------------------------------------
(* Exact rational arithmetic standing for Python float arithmetic *)

AbsInt(x) == IF x < 0 THEN -x ELSE x

RECURSIVE GCD(_, _)
GCD(x, y) == IF y = 0 THEN x ELSE GCD(y, x % y)

Rat(n, d) ==
    LET s == IF d < 0 THEN -1 ELSE 1
        g == GCD(AbsInt(n), AbsInt(d))
    IN  <<(s * n) \div g, (s * d) \div g>>

Zero == <<0, 1>>
One == <<1, 1>>

Add(x, y) == Rat(x[1] * y[2] + y[1] * x[2], x[2] * y[2])
Neg(x) == <<-x[1], x[2]>>
Sub(x, y) == Add(x, Neg(y))
Mul(x, y) == Rat(x[1] * y[1], x[2] * y[2])
Div(x, y) == Rat(x[1] * y[2], x[2] * y[1])
Less(x, y) == x[1] * y[2] < y[1] * x[2]
Leq(x, y) == x[1] * y[2] <= y[1] * x[2]
Abs(x) == <<AbsInt(x[1]), x[2]>>

Val(x) == [kind |-> "value", value |-> x]
Raised(e) == [kind |-> e]
Untabulated == [kind |-> "untabulated"]

---------------------------------------------------------------------------
(* math.exp and the float sum 1 + math.exp(x) *)

\* what is known of a float: it lies between lo and hi, and is lo when
\* lo = hi
Enclosed(lo, hi) == [kind |-> "value", lo |-> lo, hi |-> hi]

\* math.exp at the tabulated arguments: the pair <<lo, hi>> of rationals
\* with lo <= math.exp(x) <= hi.  Only math.exp(0) = 1.0 is a rational
\* that the model can write down; elsewhere the double lies strictly
\* between the two, a few parts in a thousand away from either.
ExpTable ==
    ( <<0, 1>>  :> <<One, One>> ) @@
    ( <<1, 4>>  :> << <<32, 25>>, <<9, 7>>   >> ) @@
    ( <<-1, 4>> :> << <<7, 9>>,   <<25, 32>> >> ) @@
    ( <<1, 2>>  :> << <<28, 17>>, <<33, 20>> >> ) @@
    ( <<-1, 2>> :> << <<20, 33>>, <<17, 28>> >> ) @@
    ( <<1, 1>>  :> << <<19, 7>>,  <<30, 11>> >> ) @@
    ( <<-1, 1>> :> << <<11, 30>>, <<7, 19>>  >> ) @@
    ( <<2, 1>>  :> << <<22, 3>>,  <<37, 5>>  >> ) @@
    ( <<-2, 1>> :> << <<5, 37>>,  <<3, 22>>  >> )

\* exp(x) < 2^-53 from here down: the float sum 1 + math.exp(x) is 1.0
AbsorbedBelow == -37

\* math.exp raises OverflowError from here up
OverflowFrom == 710

\* what is known of the outcome of  1 + math.exp(x)
OnePlusExp(x) ==
    IF x \in DOMAIN ExpTable
    THEN Enclosed(Add(One, ExpTable[x][1]), Add(One, ExpTable[x][2]))
    ELSE IF Leq(x, <<AbsorbedBelow, 1>>) THEN Enclosed(One, One)
    ELSE IF Leq(<<OverflowFrom, 1>>, x) THEN Raised("OverflowError")
    ELSE Untabulated

---------------------------------------------------------------------------
(* Python dicts: a question or a response is a function whose DOMAIN is   *)
(* the set of keys present                                                *)

\* dict.get(key, default)
Get(dict, key, default) == IF key \in DOMAIN dict THEN dict[key] ELSE default

\* the defaults of question.get(...) in estimate_ability and
\* calculate_information
DefaultDiscrimination == <<1, 2>>
DefaultDifficulty == <<1, 2>>
DefaultGuessing == <<1, 4>>
DefaultUpperAsymptote == <<1, 1>>

\* the default of question.get('difficulty_score', 50)
DefaultDifficultyScore == 50

\* response.get('is_correct', 0) used as a number
IsCorrectNumber(response) ==
    IF Get(response, "is_correct", FALSE) THEN One ELSE Zero

---------------------------------------------------------------------------
(* AdaptiveAlgorithm.__init__ *)

InitialStrategy == "maximum_information"

InitialCriteria ==
    [ max_questions |-> 50,
      min_questions |-> 10,
      standard_error_threshold |-> <<3, 10>>,
      confidence_threshold |-> <<95, 100>> ]

---------------------------------------------------------------------------
(* The 3PL response probability and the Fisher information, lines 40-47   *)
(* and 70-83.  An outcome that is not a value (an exception) passes       *)
(* through every later step unchanged.                                    *)

\* z = a * (theta - b)
Exponent(theta, question) ==
    Mul(Get(question, "discrimination", DefaultDiscrimination),
        Sub(theta, Get(question, "difficulty", DefaultDifficulty)))

\* d - c
Spread(question) ==
    Sub(Get(question, "upper_asymptote", DefaultUpperAsymptote),
        Get(question, "guessing", DefaultGuessing))

\* what is known of c + (d - c) / e, where e is the outcome of
\* 1 + math.exp(-z): the sum decreases in e when d > c, increases when
\* d < c, and is c itself, whatever e, when d = c.  For e = 1.0 or 2.0
\* the float sum is the rational one when c and d are binary fractions,
\* which floats hold exactly.
ProbabilityFrom(e, question) ==
    LET c == Get(question, "guessing", DefaultGuessing)
        d == Get(question, "upper_asymptote", DefaultUpperAsymptote)
    IN  IF e.kind # "value" THEN e
        ELSE IF e.lo = e.hi /\ c # d /\ {c[2], d[2]} \notin SUBSET {1, 2, 4, 8}
        THEN Untabulated
        ELSE IF Less(Spread(question), Zero)
        THEN Enclosed(Add(c, Div(Spread(question), e.lo)),
                      Add(c, Div(Spread(question), e.hi)))
        ELSE Enclosed(Add(c, Div(Spread(question), e.hi)),
                      Add(c, Div(Spread(question), e.lo)))

\* p = c + (d - c) / (1 + math.exp(-z)), where the model can write it down
Probability(theta, question) ==
    LET p == ProbabilityFrom(OnePlusExp(Neg(Exponent(theta, question))), question)
    IN  IF p.kind # "value" THEN p
        ELSE IF p.lo = p.hi THEN Val(p.lo)
        ELSE Untabulated

\* a * a * (d - c) * (d - c)
SlopeSquared(question) ==
    Mul(Mul(Get(question, "discrimination", DefaultDiscrimination),
            Get(question, "discrimination", DefaultDiscrimination)),
        Mul(Spread(question), Spread(question)))

\* numerator / denominator: Python raises on a zero float denominator
Quotient(numerator, denominator) ==
    IF denominator = Zero THEN Raised("ZeroDivisionError")
    ELSE Val(Div(numerator, denominator))

\* (a * a * (d - c) * (d - c)) / (p * (1 - p)) for the outcome p
InformationFrom(p, question) ==
    IF p.kind # "value" THEN p
    ELSE Quotient(SlopeSquared(question), Mul(p.value, Sub(One, p.value)))

calculate_information(theta, question) ==
    InformationFrom(Probability(theta, question), question)

\* what is known of the outcome of calculate_information: the outcome
\* itself where p is known, and for 0 < p < 1 the quotient of
\* a * a * (d - c) * (d - c) by the least and the greatest p * (1 - p)
InformationBounds(theta, question) ==
    LET p == ProbabilityFrom(OnePlusExp(Neg(Exponent(theta, question))), question)
        information == InformationFrom(Val(p.lo), question)
    IN  IF p.kind # "value" THEN p
        ELSE IF p.lo = p.hi
        THEN IF information.kind = "value"
             THEN Enclosed(information.value, information.value)
             ELSE information
        ELSE IF Less(Zero, p.lo) /\ Less(p.hi, One)
        THEN Enclosed(Div(SlopeSquared(question), Mul(p.hi, Sub(One, p.lo))),
                      Div(SlopeSquared(question), Mul(p.lo, Sub(One, p.hi))))
        ELSE Untabulated

---------------------------------------------------------------------------
(* estimate_ability: Newton-Raphson, lines 21-68 *)

max_iterations == 50
tolerance == <<1, 1000>>

\* the pair (first_derivative, second_derivative) as an outcome
Derivs(first, second) == [kind |-> "value", first |-> first, second |-> second]

\* first_deriv = a * (is_correct - p) * (d - c) / pq
\* second_deriv = -a * a * (d - c) * (d - c) / (pq * pq);  pq is not zero
DerivativeTermAt(p, pq, question, response) ==
    Derivs(Div(Mul(Mul(Get(question, "discrimination", DefaultDiscrimination),
                       Sub(IsCorrectNumber(response), p)),
                   Spread(question)),
               pq),
           Neg(Div(SlopeSquared(question), Mul(pq, pq))))

\* lines 45-52 for the outcome p of the probability
DerivativeTermFrom(p, question, response) ==
    IF p.kind # "value" THEN p
    ELSE IF Mul(p.value, Sub(One, p.value)) = Zero
    THEN Raised("ZeroDivisionError")
    ELSE DerivativeTermAt(p.value, Mul(p.value, Sub(One, p.value)),
                          question, response)

DerivativeTerm(theta, question, response) ==
    DerivativeTermFrom(Probability(theta, question), question, response)

\* first_derivative += first_deriv; second_derivative += second_deriv
Accumulate(sums, term) ==
    IF term.kind # "value" THEN term
    ELSE Derivs(Add(sums.first, term.first), Add(sums.second, term.second))

\* the inner loop, lines 35-55, from position i on: responses beyond
\* len(questions) are skipped
RECURSIVE Derivatives(_, _, _, _, _)
Derivatives(theta, responses, questions, i, sums) ==
    IF sums.kind # "value" \/ i > Len(responses) THEN sums
    ELSE IF i > Len(questions)
    THEN Derivatives(theta, responses, questions, i + 1, sums)
    ELSE Derivatives(theta, responses, questions, i + 1,
                     Accumulate(sums, DerivativeTerm(theta, questions[i], responses[i])))

RECURSIVE NewtonRaphson(_, _, _, _)

\* lines 61-66: break when the update moves theta by less than tolerance
NewtonUpdate(theta, new_theta, responses, questions, iteration) ==
    IF Less(Abs(Sub(new_theta, theta)), tolerance) THEN Val(theta)
    ELSE NewtonRaphson(new_theta, responses, questions, iteration + 1)

\* lines 57-61: break when abs(second_derivative) < tolerance
NewtonStep(theta, sums, responses, questions, iteration) ==
    IF sums.kind # "value" THEN sums
    ELSE IF Less(Abs(sums.second), tolerance) THEN Val(theta)
    ELSE NewtonUpdate(theta, Sub(theta, Div(sums.first, sums.second)),
                      responses, questions, iteration)

\* the outer loop, lines 31-68, from iteration number `iteration` on
NewtonRaphson(theta, responses, questions, iteration) ==
    IF iteration >= max_iterations THEN Val(theta)
    ELSE NewtonStep(theta,
                    Derivatives(theta, responses, questions, 1, Derivs(Zero, Zero)),
                    responses, questions, iteration)

estimate_ability(responses, questions) ==
    IF responses = <<>> THEN Val(Zero)
    ELSE NewtonRaphson(Zero, responses, questions, 0)

---------------------------------------------------------------------------
(* calculate_standard_error, lines 130-147.  The value is the SQUARE of   *)
(* the standard error: 1.0 is <<1,1>>, 1/sqrt(s) is 1/s.                  *)

\* information_sum += information
AddInformation(sum, information) ==
    IF information.kind # "value" THEN information
    ELSE Val(Add(sum.value, information.value))

\* the loop of lines 138-141, from position i on
RECURSIVE InformationSum(_, _, _, _, _)
InformationSum(theta, responses, questions, i, sum) ==
    IF sum.kind # "value" \/ i > Len(responses) THEN sum
    ELSE IF i > Len(questions)
    THEN InformationSum(theta, responses, questions, i + 1, sum)
    ELSE InformationSum(theta, responses, questions, i + 1,
                        AddInformation(sum, calculate_information(theta, questions[i])))

\* lines 143-147
StandardErrorFrom(information_sum) ==
    IF information_sum.kind # "value" THEN information_sum
    ELSE IF information_sum.value = Zero THEN Val(One)
    ELSE Val(Div(One, information_sum.value))

\* lines 135-147 for the outcome theta of estimate_ability
StandardErrorAt(theta, responses, questions) ==
    IF theta.kind # "value" THEN theta
    ELSE StandardErrorFrom(
             InformationSum(theta.value, responses, questions, 1, Val(Zero)))

\* calculate_standard_error returning 0.0, as estimate_ability does, when
\* there are no responses
calculate_standard_error_ZeroWithoutResponses(responses, questions) ==
    IF responses = <<>> THEN Val(Zero)
    ELSE StandardErrorAt(estimate_ability(responses, questions), responses, questions)

calculate_standard_error(responses, questions) ==
    IF responses = <<>> THEN Val(One)
    ELSE StandardErrorAt(estimate_ability(responses, questions), responses, questions)

\* standard_error <= se_threshold, on the squares
WithinThreshold(se_squared, se_threshold) ==
    Leq(se_squared, Mul(se_threshold, se_threshold))

---------------------------------------------------------------------------
(* should_terminate, lines 149-175 *)

\* the optional argument max_questions: {} is None, {n} is the integer n
None == {}

\* max_q = max_questions or self.termination_criteria['max_questions']
EffectiveMaxQuestions(max_questions, criteria) ==
    IF max_questions = None \/ max_questions = {0}
    THEN criteria.max_questions
    ELSE CHOOSE n \in max_questions : TRUE

\* num_responses >= max_q
MaxQuestionsReached(num_responses, max_q) == num_responses >= max_q

\* SufficientPrecision without the min_questions condition
SufficientPrecision_IgnoringMinimum(num_responses, se_squared, criteria) ==
    WithinThreshold(se_squared, criteria.standard_error_threshold)

\* SufficientPrecision with the threshold 1 - confidence_threshold
SufficientPrecision_ByConfidence(num_responses, se_squared, criteria) ==
    /\ num_responses >= criteria.min_questions
    /\ WithinThreshold(se_squared, Sub(One, criteria.confidence_threshold))

\* num_responses >= min_q and standard_error <= se_threshold
SufficientPrecision(num_responses, se_squared, criteria) ==
    /\ num_responses >= criteria.min_questions
    /\ WithinThreshold(se_squared, criteria.standard_error_threshold)

\* TerminationReasons with the second `if` turned into `elif`
TerminationReasons_FirstOnly(reached, precise) ==
    IF reached THEN <<"max_questions_reached">>
    ELSE IF precise THEN <<"sufficient_precision">> ELSE <<>>

\* the two independent `if ...: termination_reasons.append(...)`
TerminationReasons(reached, precise) ==
    (IF reached THEN <<"max_questions_reached">> ELSE <<>>)
        \o (IF precise THEN <<"sufficient_precision">> ELSE <<>>)

\* 'should_terminate': len(termination_reasons) > 0
TerminationFlag(reasons) == Len(reasons) > 0

\* the dict returned, lines 169-175
Decision(reasons, num_responses, standard_error, ability_estimate) ==
    IF ability_estimate.kind # "value" THEN ability_estimate
    ELSE [ kind |-> "value",
           should_terminate |-> TerminationFlag(reasons),
           reasons |-> reasons,
           num_questions |-> num_responses,
           standard_error |-> standard_error,
           ability_estimate |-> ability_estimate.value ]

\* lines 161-175 for the outcome standard_error of line 159
DecisionFrom(standard_error, num_responses, max_q, criteria, ability_estimate) ==
    IF standard_error.kind # "value" THEN standard_error
    ELSE Decision(TerminationReasons(
                      MaxQuestionsReached(num_responses, max_q),
                      SufficientPrecision(num_responses, standard_error.value, criteria)),
                  num_responses, standard_error.value, ability_estimate)

should_terminate(responses, questions, max_questions, criteria) ==
    DecisionFrom(calculate_standard_error(responses, questions),
                 Len(responses),
                 EffectiveMaxQuestions(max_questions, criteria),
                 criteria,
                 estimate_ability(responses, questions))

---------------------------------------------------------------------------
(* select_next_question, lines 85-128.  answered_questions is modelled by *)
(* the set of its elements: the code only tests membership in it.         *)

NoItem == [kind |-> "None"]
Item(question) == [kind |-> "item", item |-> question]

\* the id a question has not: question.get('id') is then None
NoId == 0

\* Unanswered without the filter
Unanswered_Unfiltered(available_questions, answered_questions) ==
    available_questions

\* [q for q in available_questions if q.get('id') not in answered_questions]
Unanswered(available_questions, answered_questions) ==
    LET Keep(q) == Get(q, "id", NoId) \notin answered_questions
    IN  SelectSeq(available_questions, Keep)

\* best_question with max_information (or min_distance) beside it
Best(question, measure) == [kind |-> "value", question |-> question, measure |-> measure]

\* `information > max_information` follows from what is known of the two
\* floats: they are the same float (at one theta, calculate_information
\* returns the same float for two questions that agree on a, b, c and d),
\* or both are 0.0, or one lies above the other
Comparable(information, question, best) ==
    LET Curve(q) ==
            << Get(q, "discrimination", DefaultDiscrimination),
               Get(q, "difficulty", DefaultDifficulty),
               Get(q, "guessing", DefaultGuessing),
               Get(q, "upper_asymptote", DefaultUpperAsymptote) >>
    IN
    \/ best.question.kind = "item" /\ Curve(best.question.item) = Curve(question)
    \/ information.hi = Zero /\ best.measure.lo = Zero
    \/ Less(best.measure.hi, information.lo)
    \/ Less(information.hi, best.measure.lo)

\* BetterInformation with >= for >
BetterInformation_OrEqual(information, max_information) ==
    Leq(max_information.lo, information.hi)

\* if information > max_information
BetterInformation(information, max_information) ==
    Less(max_information.hi, information.lo)

\* lines 105-108: one turn of the loop, for the outcome `information`
KeepMoreInformative(best, question, information) ==
    IF information.kind # "value" THEN information
    ELSE IF ~Comparable(information, question, best) THEN Untabulated
    ELSE IF BetterInformation(information, best.measure)
    THEN Best(Item(question), information)
    ELSE best

\* the loop of lines 104-108, from position i on
RECURSIVE MaximumInformation(_, _, _, _)
MaximumInformation(current_ability, unanswered, i, best) ==
    IF best.kind # "value" THEN best
    ELSE IF i > Len(unanswered) THEN best.question
    ELSE MaximumInformation(current_ability, unanswered, i + 1,
             KeepMoreInformative(best, unanswered[i],
                 InformationBounds(current_ability, unanswered[i])))

\* abs(question.get('difficulty_score', 50) - current_ability)
Distance(current_ability, question) ==
    Abs(Sub(Get(question, "difficulty_score", <<DefaultDifficultyScore, 1>>),
            current_ability))

\* CloserDistance with <= for <
CloserDistance_OrEqual(distance, best_question, min_distance) ==
    best_question.kind = "None" \/ Leq(distance, min_distance)

\* if distance < min_distance, where min_distance starts as float('inf'):
\* as long as best_question is None, min_distance is inf
CloserDistance(distance, best_question, min_distance) ==
    best_question.kind = "None" \/ Less(distance, min_distance)

\* lines 118-122: one turn of the loop
KeepCloser(best, question, distance) ==
    IF CloserDistance(distance, best.question, best.measure)
    THEN Best(Item(question), distance)
    ELSE best

\* the loop of lines 117-122, from position i on
RECURSIVE ClosestDifficulty(_, _, _, _)
ClosestDifficulty(current_ability, unanswered, i, best) ==
    IF i > Len(unanswered) THEN best.question
    ELSE ClosestDifficulty(current_ability, unanswered, i + 1,
             KeepCloser(best, unanswered[i], Distance(current_ability, unanswered[i])))

\* random.choice(unanswered): the module never imports random
RandomChoice(unanswered) == Raised("NameError")

\* lines 99-128: the strategy dispatch on a non-empty unanswered list
SelectByStrategy(strategy, current_ability, unanswered) ==
    IF strategy = "maximum_information"
    THEN MaximumInformation(current_ability, unanswered, 1,
                            Best(NoItem, Enclosed(Zero, Zero)))
    ELSE IF strategy = "closest_difficulty"
    THEN ClosestDifficulty(current_ability, unanswered, 1, Best(NoItem, Zero))
    ELSE RandomChoice(unanswered)

\* lines 96-128 for the filtered list
SelectFrom(strategy, current_ability, unanswered) ==
    IF unanswered = <<>> THEN NoItem
    ELSE SelectByStrategy(strategy, current_ability, unanswered)

\* select_next_question without the `if not unanswered` return
select_next_question_WithoutExhaustedCheck(strategy, current_ability, available_questions, answered_questions) ==
    IF available_questions = <<>> THEN NoItem
    ELSE SelectByStrategy(strategy, current_ability,
                          Unanswered(available_questions, answered_questions))

select_next_question(strategy, current_ability, available_questions, answered_questions) ==
    IF available_questions = <<>> THEN NoItem
    ELSE SelectFrom(strategy, current_ability,
                    Unanswered(available_questions, answered_questions))

---------------------------------------------------------------------------
(* The callers' inputs: questions, response histories, candidate pools *)

\* a = 1, b = 0, c = 0, d = 1; no difficulty_score
Sharp ==
    [ discrimination |-> <<1, 1>>, difficulty |-> Zero,
      guessing |-> Zero, upper_asymptote |-> One ]

\* a = 1/2, b = 0, c = 0, d = 1
Flat ==
    [ discrimination |-> <<1, 2>>, difficulty |-> Zero,
      guessing |-> Zero, upper_asymptote |-> One, difficulty_score |-> <<49, 1>> ]

\* a = 1, b = 1, c = 0, d = 1
Far ==
    [ discrimination |-> <<1, 1>>, difficulty |-> One,
      guessing |-> Zero, upper_asymptote |-> One, difficulty_score |-> <<51, 1>> ]

\* a = 1, b = 0, c = 1/4 (the default), d = 1
Guessable ==
    [ discrimination |-> <<1, 1>>, difficulty |-> Zero, difficulty_score |-> <<49, 1>> ]

\* a = 0: no discrimination, zero information everywhere
NoSlope ==
    [ discrimination |-> Zero, difficulty_score |-> <<51, 1>> ]

\* c = d = 0: the probability of a correct response is exactly 0
Impossible ==
    [ discrimination |-> <<1, 1>>, difficulty |-> Zero,
      guessing |-> Zero, upper_asymptote |-> Zero, difficulty_score |-> <<50, 1>> ]

\* c = 1 > d = 0: the parameters violate 0 <= c <= d <= 1
Inverted ==
    [ discrimination |-> <<1, 1>>, difficulty |-> Zero,
      guessing |-> One, upper_asymptote |-> Zero, difficulty_score |-> <<50, 1>> ]

\* a = 0 and c = d = 0: no discrimination, and the probability is exactly 0
Dead ==
    [ discrimination |-> Zero, difficulty |-> Zero,
      guessing |-> Zero, upper_asymptote |-> Zero, difficulty_score |-> <<50, 1>> ]

\* the kinds administered in histories: at the prior theta = 0 their
\* exponent a * (theta - b) is 0
HistoryKinds == {Sharp, Flat, Guessable, NoSlope, Impossible, Inverted, Dead}

\* the question dict of a kind, with its id
WithId(kind, id) == ("id" :> id) @@ kind

\* k correct then m incorrect responses to questions of one kind, the
\* questions numbered from id `from` on
Run(kind, k, m, from) ==
    [ i \in 1..(k + m) |->
        [ question |-> WithId(kind, from + i - 1), is_correct |-> i <= k ] ]

\* a session's history: a run on one kind, then at most one response to
\* a question without discrimination
Histories ==
    { Run(kind, k, m, 1) \o Run(NoSlope, tail[1], tail[2], k + m + 1) :
        kind \in HistoryKinds, k \in 0..MaxRun, m \in 0..MaxRun,
        tail \in {<<0, 0>>, <<1, 0>>, <<0, 1>>} }

ResponsesOf(history) ==
    [ i \in 1..Len(history) |-> [is_correct |-> history[i].is_correct] ]

QuestionsOf(history) ==
    [ i \in 1..Len(history) |-> history[i].question ]

\* the histories on which the caller also gets the lengths wrong
ShortHistories == { h \in Histories : Len(h) \in 1..3 }

\* the (responses, questions) pairs passed to the estimator: matched
\* position by position; or, on the short histories, with the last
\* question missing or with no responses at all
EstimatorInputs ==
    { [responses |-> ResponsesOf(h), questions |-> QuestionsOf(h)] :
        h \in Histories }
    \cup { [ responses |-> ResponsesOf(h),
             questions |-> SubSeq(QuestionsOf(h), 1, Len(h) - 1) ] :
             h \in ShortHistories }
    \cup { [responses |-> <<>>, questions |-> QuestionsOf(h)] :
             h \in ShortHistories }

\* the max_questions arguments: None, 0, and the lengths a history can have
MaxQuestionsArguments ==
    {None} \cup { {n} : n \in {0, 1, 2 * MaxRun, 2 * MaxRun + 1} }

Strategies == {"maximum_information", "closest_difficulty", "random"}

\* abilities handed to select_next_question: on the theta scale and on
\* the 0-100 scale of difficulty_score
Abilities == { <<0, 1>>, <<1, 1>>, <<50, 1>> }

PoolKinds == {Sharp, Far, NoSlope, Impossible}

\* candidate pools: up to MaxPool questions with the ids 1, 2, ...
Pools ==
    UNION { { [ i \in 1..n |-> WithId(f[i], i) ] : f \in [1..n -> PoolKinds] } :
            n \in 0..MaxPool }

AnsweredSets == SUBSET (1..MaxPool)

---------------------------------------------------------------------------
(* The state machine: one action per engine method called.  The engine   *)
(* is synchronous: a call is made when no call is pending (op is "idle"), *)
(* and Return hands its outcome to the caller.                            *)

NoArgs == [none |-> TRUE]

Idle == op = "idle"

\* no estimate_ability call is in progress
NewtonRest ==
    [ pc |-> "rest", iteration |-> 0, theta |-> Zero,
      first_derivative |-> Zero, second_derivative |-> Zero ]

\* Psychometrics() and UsageStats(): the field defaults of a new Question,
\* with the default difficulty_score
NewQuestion ==
    [ difficulty_score |-> <<50, 1>>,
      psychometrics |->
          [ discrimination |-> <<1, 2>>, difficulty |-> <<1, 2>>,
            guessing |-> <<1, 4>>, upper_asymptote |-> <<1, 1>> ],
      usage_stats |->
          [ times_used |-> 0, correct_answers |-> 0,
            average_time_spent |-> Zero, last_used |-> None ] ]

\* a session that has administered nothing yet, and holds no lists
NewSession ==
    [ history |-> <<>>, pool |-> <<>>, administered |-> <<>>, responses |-> <<>>,
      noted |-> <<>> ]

\* the caller has made no update_usage_stats call yet
NoUsageCalls ==
    [ calls |-> 0, correct |-> 0, time_spent |-> Zero ]

\* AdaptiveData(): initial_ability 0.0, final_ability 0.0, no history
NewAdaptiveData ==
    [ initial_ability |-> Zero, final_ability |-> Zero, ability_history |-> <<>> ]

Init ==
    /\ question_selection_strategy = InitialStrategy
    /\ termination_criteria = InitialCriteria
    /\ op = "idle"
    /\ args = NoArgs
    /\ result = NoItem
    /\ newton = NewtonRest
    /\ question_document = NewQuestion
    /\ session = NewSession
    /\ usage_calls = NoUsageCalls
    /\ adaptive_data = NewAdaptiveData

\* the caller sets adaptive_algorithm.question_selection_strategy
Configure ==
    \E s \in Strategies :
        /\ Idle
        /\ question_selection_strategy' = s
        /\ UNCHANGED <<termination_criteria, op, args, result,
                       newton, question_document,
                       session, usage_calls, adaptive_data>>

\* the caller has taken the outcome of the last call
Return ==
    /\ ~Idle
    /\ op' = "idle"
    /\ args' = NoArgs
    /\ result' = NoItem
    /\ UNCHANGED <<question_selection_strategy, termination_criteria,
                   newton, question_document,
                   session, usage_calls, adaptive_data>>

\* the questions and abilities handed to calculate_information on its
\* own: the exponent a * (theta - b) is 0, or so large that the float sum
\* 1 + math.exp(-z) is exactly 1.0
CalculateInformation ==
    \E theta \in { <<0, 1>>, <<50, 1>> }, kind \in HistoryKinds :
        /\ Idle
        /\ op' = "calculate_information"
        /\ args' = [ theta |-> theta, question |-> WithId(kind, 1) ]
        /\ result' = calculate_information(theta, WithId(kind, 1))
        /\ result'.kind # "untabulated"
        /\ UNCHANGED <<question_selection_strategy, termination_criteria,
                       newton, question_document,
                       session, usage_calls, adaptive_data>>

EstimateAbility ==
    \E inp \in EstimatorInputs :
        /\ Idle
        /\ op' = "estimate_ability"
        /\ args' = inp
        /\ result' = estimate_ability(inp.responses, inp.questions)
        /\ result'.kind # "untabulated"
        /\ UNCHANGED <<question_selection_strategy, termination_criteria,
                       newton, question_document,
                       session, usage_calls, adaptive_data>>

CalculateStandardError ==
    \E inp \in EstimatorInputs :
        /\ Idle
        /\ op' = "calculate_standard_error"
        /\ args' = inp
        /\ result' = calculate_standard_error(inp.responses, inp.questions)
        /\ result'.kind # "untabulated"
        /\ UNCHANGED <<question_selection_strategy, termination_criteria,
                       newton, question_document,
                       session, usage_calls, adaptive_data>>

ShouldTerminate ==
    \E inp \in EstimatorInputs, mq \in MaxQuestionsArguments :
        /\ Idle
        /\ op' = "should_terminate"
        /\ args' = [ responses |-> inp.responses, questions |-> inp.questions,
                     max_questions |-> mq ]
        /\ result' = should_terminate(inp.responses, inp.questions, mq,
                                      termination_criteria)
        /\ result'.kind # "untabulated"
        /\ UNCHANGED <<question_selection_strategy, termination_criteria,
                       newton, question_document,
                       session, usage_calls, adaptive_data>>

SelectNextQuestion ==
    \E theta \in Abilities, pool \in Pools, answered \in AnsweredSets :
        /\ Idle
        /\ op' = "select_next_question"
        /\ args' = [ current_ability |-> theta,
                     available_questions |-> pool,
                     answered_questions |-> answered ]
        /\ result' = select_next_question(question_selection_strategy, theta,
                                          pool, answered)
        /\ result'.kind # "untabulated"
        /\ UNCHANGED <<question_selection_strategy, termination_criteria,
                       newton, question_document,
                       session, usage_calls, adaptive_data>>

Next ==
    \/ Configure
    \/ Return
    \/ CalculateInformation
    \/ EstimateAbility
    \/ CalculateStandardError
    \/ ShouldTerminate
    \/ SelectNextQuestion

Spec == Init /\ [][Next]_vars

---------------------------------------------------------------------------
(* estimate_ability step by step: one action per stretch of lines 23-68,  *)
(* the call's locals in `newton`.  The calls followed are those whose     *)
(* float arithmetic the model carries out exactly.                        *)

\* a = 1, b = -40, c = 0, d = 1/2: while theta >= -3 the float sum
\* 1 + math.exp(-z) is 1.0 and the probability is exactly 0.5
Saturated ==
    [ discrimination |-> <<1, 1>>, difficulty |-> <<-40, 1>>,
      guessing |-> Zero, upper_asymptote |-> <<1, 2>> ]

\* one correct response to a Saturated question, or a correct and an
\* incorrect one
SaturatedInputs ==
    { [ responses |-> ResponsesOf(Run(Saturated, 1, m, 1)),
        questions |-> QuestionsOf(Run(Saturated, 1, m, 1)) ] : m \in 0..1 }

\* the positions of the Sharp questions that have a response, correct or
\* incorrect
AnsweredSharp(inp, is_correct) ==
    { i \in DOMAIN inp.responses \cap DOMAIN inp.questions :
        /\ inp.questions[i] = WithId(Sharp, i)
        /\ inp.responses[i].is_correct = is_correct }

\* the calls followed step by step: at most one response, or two that
\* balance, to questions of the kinds Sharp, NoSlope, Impossible and
\* Saturated; the responses to Sharp questions balance, so that theta stays
\* at 0, where math.exp is exact
NewtonInputs ==
    { inp \in EstimatorInputs \cup SaturatedInputs :
        /\ Len(inp.responses) <= 2
        /\ Len(inp.responses) = 2
               => inp.responses[1].is_correct # inp.responses[2].is_correct
        /\ \A i \in DOMAIN inp.questions :
               \E kind \in {Sharp, NoSlope, Impossible, Saturated} :
                   inp.questions[i] = WithId(kind, i)
        /\ Cardinality(AnsweredSharp(inp, TRUE))
               = Cardinality(AnsweredSharp(inp, FALSE)) }

\* for iteration in range(max_iterations): the loop has a value left
InRange(iteration) == iteration < max_iterations

\* abs(second_derivative) < tolerance
FlatLikelihood(second_derivative) == Less(Abs(second_derivative), tolerance)

\* new_theta = theta - first_derivative / second_derivative
NewTheta(locals) ==
    Sub(locals.theta, Div(locals.first_derivative, locals.second_derivative))

\* Converged that never holds
Converged_Never(new_theta, theta) == FALSE

\* abs(new_theta - theta) < tolerance
Converged(new_theta, theta) == Less(Abs(Sub(new_theta, theta)), tolerance)

\* lines 23-29: the call, its early return, the initial locals
BeginEstimate ==
    \E inp \in NewtonInputs :
        /\ Idle
        /\ newton.pc = "rest"
        /\ op' = "estimate_ability"
        /\ args' = inp
        /\ IF inp.responses = <<>>
           THEN /\ newton' = [NewtonRest EXCEPT !.pc = "returned"]
                /\ result' = Val(Zero)
           ELSE /\ newton' = [NewtonRest EXCEPT !.pc = "for"]
                /\ result' = NoItem
        /\ UNCHANGED <<question_selection_strategy, termination_criteria,
                       question_document,
                       session, usage_calls, adaptive_data>>

\* lines 31-33 and 68: the next value of the range, or the end of the loop
EnterIteration ==
    /\ newton.pc = "for"
    /\ IF InRange(newton.iteration)
       THEN /\ newton' = [newton EXCEPT !.pc = "sums",
                                         !.first_derivative = Zero,
                                         !.second_derivative = Zero]
            /\ UNCHANGED result
       ELSE /\ newton' = [newton EXCEPT !.pc = "returned"]
            /\ result' = Val(newton.theta)
    /\ UNCHANGED <<question_selection_strategy, termination_criteria, op, args,
                   question_document,
                   session, usage_calls, adaptive_data>>

\* lines 35-55: the inner loop over the responses
SumDerivatives ==
    /\ newton.pc = "sums"
    /\ LET sums == Derivatives(newton.theta, args.responses,
                                args.questions, 1, Derivs(Zero, Zero))
       IN  IF sums.kind = "value"
           THEN /\ newton' = [newton EXCEPT !.pc = "check",
                                             !.first_derivative = sums.first,
                                             !.second_derivative = sums.second]
                /\ UNCHANGED result
           ELSE /\ newton' = [newton EXCEPT !.pc = "raised"]
                /\ result' = sums
    /\ UNCHANGED <<question_selection_strategy, termination_criteria, op, args,
                   question_document,
                   session, usage_calls, adaptive_data>>

\* lines 57-58 and 68: break on a flat likelihood, return theta
BreakOnFlatLikelihood ==
    /\ newton.pc = "check"
    /\ FlatLikelihood(newton.second_derivative)
    /\ newton' = [newton EXCEPT !.pc = "returned"]
    /\ result' = Val(newton.theta)
    /\ UNCHANGED <<question_selection_strategy, termination_criteria, op, args,
                   question_document,
                   session, usage_calls, adaptive_data>>

\* lines 61-66 and 68: the update; break when it moves theta by less than
\* the tolerance, else theta = new_theta and the iteration is over
UpdateTheta ==
    /\ newton.pc = "check"
    /\ ~FlatLikelihood(newton.second_derivative)
    /\ IF Converged(NewTheta(newton), newton.theta)
       THEN /\ newton' = [newton EXCEPT !.pc = "returned"]
            /\ result' = Val(newton.theta)
       ELSE /\ newton' = [newton EXCEPT !.pc = "for",
                                         !.theta = NewTheta(newton),
                                         !.iteration = newton.iteration + 1]
            /\ UNCHANGED result
    /\ UNCHANGED <<question_selection_strategy, termination_criteria, op, args,
                   question_document,
                   session, usage_calls, adaptive_data>>

\* the caller has taken the outcome of the call
FinishEstimate ==
    /\ newton.pc \in {"returned", "raised"}
    /\ newton' = NewtonRest
    /\ op' = "idle"
    /\ args' = NoArgs
    /\ result' = NoItem
    /\ UNCHANGED <<question_selection_strategy, termination_criteria,
                   question_document,
                   session, usage_calls, adaptive_data>>

NextNewton ==
    \/ BeginEstimate
    \/ EnterIteration
    \/ SumDerivatives
    \/ BreakOnFlatLikelihood
    \/ UpdateTheta
    \/ FinishEstimate

SpecNewton == Init /\ [][NextNewton]_vars

---------------------------------------------------------------------------
(* Question.update_psychometrics and Question.update_usage_stats,         *)
(* models/question.py lines 122-154, on the document question_document.   *)
(* An outcome is [kind, document]: what the call returns or raises, and   *)
(* the document it leaves.                                                *)

\* sum(1 for r in responses if r.get('is_correct', False))
CountCorrect(responses) ==
    Cardinality({ i \in DOMAIN responses : Get(responses[i], "is_correct", FALSE) })

\* ProportionCorrect counting the incorrect responses
ProportionCorrect_CountingIncorrect(responses) ==
    Rat(Len(responses) - CountCorrect(responses), Len(responses))

\* correct_responses / total_responses, for a non-empty batch
ProportionCorrect(responses) == Rat(CountCorrect(responses), Len(responses))

\* x.get('user_ability', 0)
UserAbility(response) == Get(response, "user_ability", Zero)

\* one element put into a list sorted by descending user_ability, behind
\* the elements whose key is not smaller: the sort is stable
InsertDescending(sorted, response) ==
    LET ahead == Cardinality({ i \in DOMAIN sorted :
                                 Leq(UserAbility(response), UserAbility(sorted[i])) })
    IN  SubSeq(sorted, 1, ahead) \o <<response>> \o SubSeq(sorted, ahead + 1, Len(sorted))

\* sorted(responses, key=lambda x: x.get('user_ability', 0), reverse=True),
\* from position i on
RECURSIVE SortedDescending(_, _, _)
SortedDescending(responses, i, sorted) ==
    IF i > Len(responses) THEN sorted
    ELSE SortedDescending(responses, i + 1, InsertDescending(sorted, responses[i]))

\* (len(sorted_responses) + 2) // 3
TopThird(n) == (n + 2) \div 3

\* len(sorted_responses) // 3
BottomThird(n) == n \div 3

\* sorted_responses[:top_third]
TopSlice(sorted, top_third) == SubSeq(sorted, 1, top_third)

\* sorted_responses[-bottom_third:]; the slice [-0:] is the whole list
BottomSlice(sorted, bottom_third) ==
    IF bottom_third = 0 THEN sorted
    ELSE SubSeq(sorted, Len(sorted) - bottom_third + 1, Len(sorted))

\* (top_correct / top_third) - (bottom_correct / bottom_third)
DiscriminationIndex(sorted, top_third, bottom_third) ==
    Sub(Rat(CountCorrect(TopSlice(sorted, top_third)), top_third),
        Rat(CountCorrect(BottomSlice(sorted, bottom_third)), bottom_third))

\* lines 145-154: the discrimination after the update
NewDiscrimination(document, responses) ==
    IF TopThird(Len(responses)) > 0 /\ BottomThird(Len(responses)) > 0
    THEN DiscriminationIndex(SortedDescending(responses, 1, <<>>),
                             TopThird(Len(responses)), BottomThird(Len(responses)))
    ELSE document.psychometrics.discrimination

\* update_psychometrics without the `if not responses: return`
update_psychometrics_WithoutEmptyCheck(document, responses) ==
    IF responses = <<>>
    THEN [ kind |-> "ZeroDivisionError", document |-> document ]
    ELSE [ kind |-> "None",
           document |->
               [ document EXCEPT
                   !.psychometrics.difficulty = ProportionCorrect(responses),
                   !.psychometrics.discrimination =
                       NewDiscrimination(document, responses) ] ]

\* update_psychometrics writing the proportion correct to guessing as well
update_psychometrics_OverwritingGuessing(document, responses) ==
    IF responses = <<>>
    THEN [ kind |-> "None", document |-> document ]
    ELSE [ kind |-> "None",
           document |->
               [ document EXCEPT
                   !.psychometrics.difficulty = ProportionCorrect(responses),
                   !.psychometrics.guessing = ProportionCorrect(responses),
                   !.psychometrics.discrimination =
                       NewDiscrimination(document, responses) ] ]

update_psychometrics(document, responses) ==
    IF responses = <<>>
    THEN [ kind |-> "None", document |-> document ]
    ELSE [ kind |-> "None",
           document |->
               [ document EXCEPT
                   !.psychometrics.difficulty = ProportionCorrect(responses),
                   !.psychometrics.discrimination =
                       NewDiscrimination(document, responses) ] ]

\* datetime.now(), an opaque instant
Now == {"datetime.now()"}

\* NewAverage as the plain mean of the old average and the new time
NewAverage_Unweighted(average_time_spent, times_used, time_spent) ==
    Div(Add(average_time_spent, time_spent), <<2, 1>>)

\* (average_time_spent * (times_used - 1) + time_spent) / times_used, for
\* the incremented times_used
NewAverage(average_time_spent, times_used, time_spent) ==
    Div(Add(Mul(average_time_spent, <<times_used - 1, 1>>), time_spent),
        <<times_used, 1>>)

\* update_usage_stats counting every response as correct
update_usage_stats_CountingEveryResponse(document, is_correct, time_spent) ==
    [ kind |-> "None",
      document |->
          [ document EXCEPT
              !.usage_stats.times_used = @ + 1,
              !.usage_stats.correct_answers = @ + 1,
              !.usage_stats.average_time_spent =
                  NewAverage(@, document.usage_stats.times_used + 1, time_spent),
              !.usage_stats.last_used = Now ] ]

update_usage_stats(document, is_correct, time_spent) ==
    [ kind |-> "None",
      document |->
          [ document EXCEPT
              !.usage_stats.times_used = @ + 1,
              !.usage_stats.correct_answers = IF is_correct THEN @ + 1 ELSE @,
              !.usage_stats.average_time_spent =
                  NewAverage(@, document.usage_stats.times_used + 1, time_spent),
              !.usage_stats.last_used = Now ] ]

\* the responses of a batch: correct or not, by an examinee of high
\* ability or of ability 0, the keys present or left to their defaults;
\* and responses that carry the ability under the key ability_at_time
BatchResponses ==
    { [is_correct |-> TRUE, user_ability |-> One],
      [is_correct |-> FALSE, user_ability |-> One],
      [is_correct |-> TRUE],
      [user_ability |-> Zero],
      [is_correct |-> TRUE, ability_at_time |-> One],
      [is_correct |-> FALSE, ability_at_time |-> Zero] }

Batches ==
    UNION { [1..n -> BatchResponses] : n \in 0..MaxBatch }

\* the time_spent arguments
TimesSpent == { <<1, 1>>, <<3, 1>> }

UpdatePsychometrics ==
    \E batch \in Batches :
        /\ Idle
        /\ op' = "update_psychometrics"
        /\ args' = [responses |-> batch]
        /\ question_document' = update_psychometrics(question_document, batch).document
        /\ result' = [kind |-> update_psychometrics(question_document, batch).kind]
        /\ UNCHANGED <<question_selection_strategy, termination_criteria, newton,
                       session, usage_calls, adaptive_data>>

UpdateUsageStats ==
    \E is_correct \in BOOLEAN, time_spent \in TimesSpent :
        /\ Idle
        /\ question_document.usage_stats.times_used < MaxUses
        /\ op' = "update_usage_stats"
        /\ args' = [is_correct |-> is_correct, time_spent |-> time_spent]
        /\ question_document' =
               update_usage_stats(question_document, is_correct, time_spent).document
        /\ result' = NoItem
        /\ usage_calls' =
               [ calls |-> usage_calls.calls + 1,
                 correct |-> usage_calls.correct + (IF is_correct THEN 1 ELSE 0),
                 time_spent |-> Add(usage_calls.time_spent, time_spent) ]
        /\ UNCHANGED <<question_selection_strategy, termination_criteria, newton,
                       session, adaptive_data>>

NextQuestion ==
    \/ UpdatePsychometrics
    \/ UpdateUsageStats
    \/ Return

SpecQuestion == Init /\ [][NextQuestion]_vars

---------------------------------------------------------------------------
(* A test session on the engine: each turn it appends one response to its *)
(* history, and it consults should_terminate (lines 149-175) on the       *)
(* history.  The questions of a session are of one kind, and its         *)
(* examinee alternates between correct and incorrect responses; a         *)
(* consultation whose floats the model cannot compute (an estimate off    *)
(* the prior, on an unbalanced history) is not part of the model.         *)

MaxTurns == 52

\* the kinds of question a session administers
SessionKinds == {NoSlope, Impossible, Sharp}

\* the max_questions a session passes: none, or its own limit
SessionLimits == { None, {3} }

\* the values of termination_criteria['confidence_threshold']
ConfidenceThresholds == { <<95, 100>>, <<1, 2>> }

\* the caller sets adaptive_algorithm.termination_criteria['confidence_threshold']
SetConfidenceThreshold ==
    \E confidence \in ConfidenceThresholds :
        /\ Idle
        /\ termination_criteria' =
               [termination_criteria EXCEPT !.confidence_threshold = confidence]
        /\ UNCHANGED <<question_selection_strategy, op, args, result, newton,
                       question_document, session, usage_calls, adaptive_data>>

\* the session records the response to one more question
AnswerQuestion ==
    \E kind \in SessionKinds, is_correct \in BOOLEAN :
        /\ Idle
        /\ Len(session.history) < MaxTurns
        /\ \A i \in DOMAIN session.history :
               session.history[i].question = WithId(kind, i)
        /\ session.history # <<>>
               => is_correct # session.history[Len(session.history)].is_correct
        /\ session' =
               [ session EXCEPT
                   !.history = Append(@, [ question |-> WithId(kind, Len(@) + 1),
                                           is_correct |-> is_correct ]) ]
        /\ UNCHANGED <<question_selection_strategy, termination_criteria, op, args,
                       result, newton, question_document, usage_calls, adaptive_data>>

\* the session asks should_terminate about its history
ConsultTermination ==
    \E max_questions \in SessionLimits :
        /\ Idle
        /\ op' = "should_terminate"
        /\ args' = [ responses |-> ResponsesOf(session.history),
                     questions |-> QuestionsOf(session.history),
                     max_questions |-> max_questions ]
        /\ result' = should_terminate(ResponsesOf(session.history),
                                      QuestionsOf(session.history),
                                      max_questions, termination_criteria)
        /\ result'.kind # "untabulated"
        /\ UNCHANGED <<question_selection_strategy, termination_criteria, newton,
                       question_document, session, usage_calls, adaptive_data>>

NextSession ==
    \/ SetConfidenceThreshold
    \/ AnswerQuestion
    \/ ConsultTermination
    \/ Return

SpecSession == Init /\ [][NextSession]_vars

---------------------------------------------------------------------------
(* A session that administers what select_next_question (lines 85-128)    *)
(* returns: each turn it passes its pool and the ids administered so far,  *)
(* and adds the id of the question returned to them.                       *)

\* the ids administered so far, as the answered_questions argument
AnsweredIds(administered) == { administered[i] : i \in DOMAIN administered }

\* the session is given its pool of candidate questions
OpenPool ==
    \E pool \in Pools :
        /\ Idle
        /\ session.pool = <<>>
        /\ pool # <<>>
        /\ session' = [session EXCEPT !.pool = pool]
        /\ UNCHANGED <<question_selection_strategy, termination_criteria, op, args,
                       result, newton, question_document, usage_calls, adaptive_data>>

\* one turn: select_next_question, then the id of the question returned
\* joins the administered ids
AdministerNext ==
    \E theta \in Abilities :
        /\ Idle
        /\ session.pool # <<>>
        /\ op' = "select_next_question"
        /\ args' = [ current_ability |-> theta,
                     available_questions |-> session.pool,
                     answered_questions |-> AnsweredIds(session.administered) ]
        /\ result' = select_next_question(question_selection_strategy, theta,
                                          session.pool,
                                          AnsweredIds(session.administered))
        /\ result'.kind # "untabulated"
        /\ session' =
               IF result'.kind = "item"
               THEN [ session EXCEPT
                        !.administered = Append(@, Get(result'.item, "id", NoId)) ]
               ELSE session
        /\ UNCHANGED <<question_selection_strategy, termination_criteria, newton,
                       question_document, usage_calls, adaptive_data>>

NextSelection ==
    \/ Configure
    \/ OpenPool
    \/ AdministerNext
    \/ Return

SpecSelection == Init /\ [][NextSelection]_vars

---------------------------------------------------------------------------
(* A caller that holds two lists of its own, the response records         *)
(* (session.responses) and the questions they answer (session.pool), and  *)
(* passes these same lists to the engine's methods and to                  *)
(* Question.update_psychometrics.  Python passes a list by reference:     *)
(* what a method does to its argument is done to the caller's list.  No    *)
(* statement of lines 21-175 or of question.py lines 134-154 assigns to,   *)
(* appends to, removes from or sorts an argument; sorted() (line 146)      *)
(* and the list comprehension (line 94) build new lists.                   *)

\* the response records of a history, each with the ability the examinee
\* had by then: the later the response, the higher
RecordsOf(history) ==
    [ i \in 1..Len(history) |->
        [ is_correct |-> history[i].is_correct, user_ability |-> <<i, 1>> ] ]

\* the caller takes up the lists of a short session
TakeLists ==
    \E h \in ShortHistories :
        /\ Idle
        /\ session.responses = <<>>
        /\ session' = [session EXCEPT !.responses = RecordsOf(h),
                                      !.pool = QuestionsOf(h)]
        /\ UNCHANGED <<question_selection_strategy, termination_criteria, op, args,
                       result, newton, question_document, usage_calls, adaptive_data>>

CallEstimateAbility ==
    /\ Idle
    /\ session.responses # <<>>
    /\ op' = "estimate_ability"
    /\ args' = [responses |-> session.responses, questions |-> session.pool]
    /\ result' = estimate_ability(session.responses, session.pool)
    /\ result'.kind # "untabulated"
    /\ UNCHANGED <<question_selection_strategy, termination_criteria, newton,
                   question_document, session, usage_calls, adaptive_data>>

CallCalculateStandardError ==
    /\ Idle
    /\ session.responses # <<>>
    /\ op' = "calculate_standard_error"
    /\ args' = [responses |-> session.responses, questions |-> session.pool]
    /\ result' = calculate_standard_error(session.responses, session.pool)
    /\ result'.kind # "untabulated"
    /\ UNCHANGED <<question_selection_strategy, termination_criteria, newton,
                   question_document, session, usage_calls, adaptive_data>>

CallShouldTerminate ==
    /\ Idle
    /\ session.responses # <<>>
    /\ op' = "should_terminate"
    /\ args' = [ responses |-> session.responses, questions |-> session.pool,
                 max_questions |-> None ]
    /\ result' = should_terminate(session.responses, session.pool, None,
                                  termination_criteria)
    /\ result'.kind # "untabulated"
    /\ UNCHANGED <<question_selection_strategy, termination_criteria, newton,
                   question_document, session, usage_calls, adaptive_data>>

CallSelectNextQuestion ==
    \E theta \in Abilities, answered \in AnsweredSets :
        /\ Idle
        /\ session.responses # <<>>
        /\ op' = "select_next_question"
        /\ args' = [ current_ability |-> theta,
                     available_questions |-> session.pool,
                     answered_questions |-> answered ]
        /\ result' = select_next_question(question_selection_strategy, theta,
                                          session.pool, answered)
        /\ result'.kind # "untabulated"
        /\ UNCHANGED <<question_selection_strategy, termination_criteria, newton,
                       question_document, session, usage_calls, adaptive_data>>

\* CallUpdatePsychometrics with responses.sort(...) for sorted(responses, ...)
CallUpdatePsychometrics_SortingInPlace ==
    /\ Idle
    /\ session.responses # <<>>
    /\ op' = "update_psychometrics"
    /\ args' = [responses |-> session.responses]
    /\ question_document' =
           update_psychometrics(question_document, session.responses).document
    /\ result' = [kind |-> update_psychometrics(question_document,
                                                session.responses).kind]
    /\ session' = [session EXCEPT !.responses = SortedDescending(@, 1, <<>>)]
    /\ UNCHANGED <<question_selection_strategy, termination_criteria, newton,
                   usage_calls, adaptive_data>>

CallUpdatePsychometrics ==
    /\ Idle
    /\ session.responses # <<>>
    /\ op' = "update_psychometrics"
    /\ args' = [responses |-> session.responses]
    /\ question_document' =
           update_psychometrics(question_document, session.responses).document
    /\ result' = [kind |-> update_psychometrics(question_document,
                                                session.responses).kind]
    /\ UNCHANGED <<question_selection_strategy, termination_criteria, newton,
                   session, usage_calls, adaptive_data>>

NextCaller ==
    \/ TakeLists
    \/ CallEstimateAbility
    \/ CallCalculateStandardError
    \/ CallShouldTerminate
    \/ CallSelectNextQuestion
    \/ CallUpdatePsychometrics
    \/ Return

SpecCaller == Init /\ [][NextCaller]_vars

---------------------------------------------------------------------------
(* A caller that repeats a call: it holds the responses and the questions *)
(* of one call (session.responses, session.pool), makes the same call of  *)
(* estimate_ability (followed step by step) or of                         *)
(* calculate_standard_error again and again, and notes each outcome in    *)
(* session.noted with the strategy the engine had; between the calls the  *)
(* engine's strategy may be changed.                                      *)

\* most calls the caller makes with its arguments
MaxRepeats == 2

\* the caller repeats one method: the calls noted so far, if any, are calls
\* of `method`, and fewer than MaxRepeats
MayRepeat(method) ==
    /\ session.responses # <<>>
    /\ Len(session.noted) < MaxRepeats
    /\ \A i \in DOMAIN session.noted : session.noted[i].op = method

TakeArguments ==
    \E inp \in NewtonInputs :
        /\ Idle
        /\ session = NewSession
        /\ inp.responses # <<>>
        /\ session' = [session EXCEPT !.responses = inp.responses,
                                      !.pool = inp.questions]
        /\ UNCHANGED <<question_selection_strategy, termination_criteria, op, args,
                       result, newton, question_document, usage_calls, adaptive_data>>

\* RepeatEstimate with theta = the estimate of the earlier call (an
\* attribute the earlier call would have left on the engine) for line 27,
\* theta = 0.0
RepeatEstimate_WarmStart ==
    /\ Idle
    /\ newton.pc = "rest"
    /\ MayRepeat("estimate_ability")
    /\ op' = "estimate_ability"
    /\ args' = [responses |-> session.responses, questions |-> session.pool]
    /\ newton' =
           [ NewtonRest EXCEPT
               !.pc = "for",
               !.theta = IF /\ session.noted # <<>>
                            /\ session.noted[Len(session.noted)].result.kind = "value"
                         THEN session.noted[Len(session.noted)].result.value
                         ELSE Zero ]
    /\ result' = NoItem
    /\ UNCHANGED <<question_selection_strategy, termination_criteria,
                   question_document, session, usage_calls, adaptive_data>>

\* lines 23-29: the call on the caller's arguments (never empty), the
\* initial locals
RepeatEstimate ==
    /\ Idle
    /\ newton.pc = "rest"
    /\ MayRepeat("estimate_ability")
    /\ op' = "estimate_ability"
    /\ args' = [responses |-> session.responses, questions |-> session.pool]
    /\ newton' = [NewtonRest EXCEPT !.pc = "for"]
    /\ result' = NoItem
    /\ UNCHANGED <<question_selection_strategy, termination_criteria,
                   question_document, session, usage_calls, adaptive_data>>

\* line 68 or the exception: the caller notes the outcome
NoteEstimate ==
    /\ newton.pc \in {"returned", "raised"}
    /\ session' =
           [ session EXCEPT
               !.noted = Append(@, [ op |-> op, result |-> result,
                                     strategy |-> question_selection_strategy ]) ]
    /\ newton' = NewtonRest
    /\ op' = "idle"
    /\ args' = NoArgs
    /\ result' = NoItem
    /\ UNCHANGED <<question_selection_strategy, termination_criteria,
                   question_document, usage_calls, adaptive_data>>

\* lines 130-147 on the caller's arguments; the estimate inside (line 135)
\* is not followed step by step: the call is repeated on the arguments
\* whose estimate stops in its first iteration
RepeatCalculateStandardError ==
    /\ Idle
    /\ newton.pc = "rest"
    /\ MayRepeat("calculate_standard_error")
    /\ \/ Len(session.responses) = 2
       \/ \A i \in DOMAIN session.pool : session.pool[i] # WithId(Saturated, i)
    /\ op' = "calculate_standard_error"
    /\ args' = [responses |-> session.responses, questions |-> session.pool]
    /\ result' = calculate_standard_error(session.responses, session.pool)
    /\ result'.kind # "untabulated"
    /\ UNCHANGED <<question_selection_strategy, termination_criteria, newton,
                   question_document, session, usage_calls, adaptive_data>>

\* line 147 or the exception: the caller notes the outcome
NoteStandardError ==
    /\ op = "calculate_standard_error"
    /\ session' =
           [ session EXCEPT
               !.noted = Append(@, [ op |-> op, result |-> result,
                                     strategy |-> question_selection_strategy ]) ]
    /\ op' = "idle"
    /\ args' = NoArgs
    /\ result' = NoItem
    /\ UNCHANGED <<question_selection_strategy, termination_criteria, newton,
                   question_document, usage_calls, adaptive_data>>

NextRepeat ==
    \/ Configure
    \/ TakeArguments
    \/ RepeatEstimate
    \/ EnterIteration
    \/ SumDerivatives
    \/ BreakOnFlatLikelihood
    \/ UpdateTheta
    \/ NoteEstimate
    \/ RepeatCalculateStandardError
    \/ NoteStandardError

SpecRepeat == Init /\ [][NextRepeat]_vars

---------------------------------------------------------------------------
(* Assessment.update_ability_estimation, models/assessment.py lines       *)
(* 239-256, on the assessment's adaptive_data.  The steps 0.1 * 0.5, 0.1   *)
(* and 0.1 * 1.5 are not dyadic: the assessments are those on which the   *)
(* floats of the code take the value 0.0 exactly where the rationals do.  *)

MaxAnswers == 3

\* adjustment = 0.1 if is_correct else -0.1
Adjustment(is_correct) == IF is_correct THEN <<1, 10>> ELSE <<-1, 10>>

\* 0.5 if difficulty == "easy" else 1.0 if difficulty == "medium" else 1.5
DifficultyFactor(difficulty) ==
    IF difficulty = "easy" THEN <<1, 2>>
    ELSE IF difficulty = "medium" THEN One ELSE <<3, 2>>

\* final_ability or initial_ability: 0.0 is falsy
CurrentAbility(data) ==
    IF data.final_ability # Zero THEN data.final_ability ELSE data.initial_ability

update_ability_estimation(data, question_index, is_correct, difficulty) ==
    [ kind |-> "value",
      value |-> Add(CurrentAbility(data),
                    Mul(Adjustment(is_correct), DifficultyFactor(difficulty))),
      adaptive_data |->
          [ data EXCEPT
              !.ability_history =
                  Append(@, [ question_index |-> question_index,
                              ability |-> Add(CurrentAbility(data),
                                              Mul(Adjustment(is_correct),
                                                  DifficultyFactor(difficulty))),
                              timestamp |-> Now ]),
              !.final_ability =
                  Add(CurrentAbility(data),
                      Mul(Adjustment(is_correct), DifficultyFactor(difficulty))) ] ]

\* the initial_ability an assessment is created with
InitialAbilities == { Zero, <<1, 10>>, <<1, 2>>, One }

\* the difficulties of an assessment's questions ("hard" stands for any
\* string but "easy" and "medium"), kept to the calls whose floating-point
\* sums are 0.0 exactly where the sums of the rationals are 0: the
\* questions of one assessment all have the difficulty of its first
\* question (sums of 0.05, 0.1 and 0.15000000000000002 do not cancel in
\* floats), and an assessment that starts at 0.1 has medium questions
Difficulties(data) ==
    IF data.initial_ability = <<1, 10>> THEN {"medium"}
    ELSE IF data.ability_history = <<>> THEN {"easy", "medium", "hard"}
    ELSE { difficulty \in {"easy", "medium", "hard"} :
             Abs(Sub(data.ability_history[1].ability, data.initial_ability))
                 = Mul(Adjustment(TRUE), DifficultyFactor(difficulty)) }

QuestionIndexes == {0, 1}

\* Assessment(adaptive_data=AdaptiveData(initial_ability=...))
CreateAssessment ==
    \E initial_ability \in InitialAbilities :
        /\ Idle
        /\ adaptive_data = NewAdaptiveData
        /\ adaptive_data' = [NewAdaptiveData EXCEPT !.initial_ability = initial_ability]
        /\ UNCHANGED <<question_selection_strategy, termination_criteria, op, args,
                       result, newton, question_document, session, usage_calls>>

UpdateAbilityEstimation ==
    \E question_index \in QuestionIndexes, is_correct \in BOOLEAN,
       difficulty \in Difficulties(adaptive_data) :
        /\ Idle
        /\ Len(adaptive_data.ability_history) < MaxAnswers
        /\ op' = "update_ability_estimation"
        /\ args' = [ question_index |-> question_index, is_correct |-> is_correct,
                     difficulty |-> difficulty ]
        /\ adaptive_data' =
               update_ability_estimation(adaptive_data, question_index,
                                         is_correct, difficulty).adaptive_data
        /\ result' =
               Val(update_ability_estimation(adaptive_data, question_index,
                                             is_correct, difficulty).value)
        /\ UNCHANGED <<question_selection_strategy, termination_criteria, newton,
                       question_document, session, usage_calls>>

NextAssessment ==
    \/ CreateAssessment
    \/ UpdateAbilityEstimation
    \/ Return

SpecAssessment == Init /\ [][NextAssessment]_vars

---------------------------------------------------------------------------
(* Claims about should_terminate *)

\* C1 (as claimed): for every max_questions the caller supplies, 0 included,
\* the reasons returned by should_terminate contain 'max_questions_reached'
\* if and only if len(responses) >= max_questions.
C1_MaxQuestionsReachedIffAtLeastArgument ==
    (op = "should_terminate" /\ result.kind = "value"
        /\ args.max_questions # None)
    => LET max_questions == CHOOSE n \in args.max_questions : TRUE
       IN  (\E i \in DOMAIN result.reasons :
                result.reasons[i] = "max_questions_reached")
           <=> Len(args.responses) >= max_questions

\* C2: the reasons returned by should_terminate contain
\* 'sufficient_precision' if and only if len(responses) >= min_questions and
\* the standard error computed for the same responses and questions is
\* <= standard_error_threshold (compared on the squares).
C2_SufficientPrecisionIffEnoughAndPrecise ==
    (op = "should_terminate" /\ result.kind = "value")
    => /\ calculate_standard_error(args.responses, args.questions)
              = Val(result.standard_error)
       /\ (\E i \in DOMAIN result.reasons :
               result.reasons[i] = "sufficient_precision")
          <=> ( /\ Len(args.responses) >= termination_criteria.min_questions
                /\ LET t == termination_criteria.standard_error_threshold
                   IN  result.standard_error[1] * t[2] * t[2]
                           <= t[1] * t[1] * result.standard_error[2] )

\* C2 witness: should_terminate has returned for a history shorter than
\* min_questions whose standard error is within the threshold, and
\* 'sufficient_precision' is not among the reasons.
C2_Witness ==
    /\ op = "should_terminate" /\ result.kind = "value"
    /\ Len(args.responses) > 0
    /\ Len(args.responses) < termination_criteria.min_questions
    /\ LET t == termination_criteria.standard_error_threshold
       IN  result.standard_error[1] * t[2] * t[2] <= t[1] * t[1] * result.standard_error[2]
    /\ \A i \in DOMAIN result.reasons : result.reasons[i] # "sufficient_precision"

\* C3: in every result of should_terminate the flag should_terminate is
\* true if and only if the reasons list is non-empty, and when the count
\* criterion (against the max_questions in effect) and the precision
\* criterion both hold, both reasons are recorded.
C3_FlagIffReasonsAndBothRecorded ==
    (op = "should_terminate" /\ result.kind = "value")
    => /\ result.should_terminate <=> (result.reasons # <<>>)
       /\ ( /\ Len(args.responses)
                  >= EffectiveMaxQuestions(args.max_questions, termination_criteria)
            /\ Len(args.responses) >= termination_criteria.min_questions
            /\ LET t == termination_criteria.standard_error_threshold
               IN  result.standard_error[1] * t[2] * t[2]
                       <= t[1] * t[1] * result.standard_error[2] )
          => result.reasons = <<"max_questions_reached", "sufficient_precision">>

\* C3 witness: should_terminate has returned with both reasons recorded.
C3_Witness ==
    /\ op = "should_terminate" /\ result.kind = "value"
    /\ result.should_terminate
    /\ Len(result.reasons) = 2

---------------------------------------------------------------------------
(* Claims about the empty history *)

\* C4: with an empty response history estimate_ability returns theta = 0.0
\* and calculate_standard_error returns 1.0, whatever the item list, and
\* neither raises.
C4_EmptyHistoryGivesPrior ==
    /\ (op = "estimate_ability" /\ args.responses = <<>>) => result = Val(Zero)
    /\ (op = "calculate_standard_error" /\ args.responses = <<>>)
           => result = Val(One)

\* C4 witness: calculate_standard_error has been called with no responses
\* and a non-empty item list holding an item on which the computation
\* would divide by zero.
C4_Witness ==
    /\ op = "calculate_standard_error"
    /\ args.responses = <<>>
    /\ \E i \in DOMAIN args.questions :
           calculate_information(Zero, args.questions[i]).kind = "ZeroDivisionError"
    /\ result = Val(One)

---------------------------------------------------------------------------
(* Claims about select_next_question *)

\* C5: select_next_question returns None and raises nothing when the
\* candidate pool is empty or every candidate's id is among the
\* administered ids, under every selection strategy.
C5_NoCandidateGivesNone ==
    (op = "select_next_question"
        /\ \A i \in DOMAIN args.available_questions :
               args.available_questions[i].id \in args.answered_questions)
    => result = NoItem

\* C5 witness: under the fallback strategy, a non-empty pool whose ids are
\* all administered has given None.
C5_Witness ==
    /\ op = "select_next_question"
    /\ question_selection_strategy = "random"
    /\ args.available_questions # <<>>
    /\ \A i \in DOMAIN args.available_questions :
           args.available_questions[i].id \in args.answered_questions
    /\ result = NoItem

\* C6 (as claimed): under maximum_information and closest_difficulty,
\* whenever some candidate has an id not among the administered ids,
\* select_next_question returns an item.
C6_UnansweredCandidateGivesItem ==
    (op = "select_next_question"
        /\ question_selection_strategy \in {"maximum_information", "closest_difficulty"}
        /\ \E i \in DOMAIN args.available_questions :
               args.available_questions[i].id \notin args.answered_questions)
    => result.kind = "item"

\* C7 (as claimed): when the strategy is neither maximum_information nor
\* closest_difficulty, select_next_question with a non-empty unanswered set
\* returns some unanswered candidate, not an error.
C7_FallbackReturnsUnansweredItem ==
    (op = "select_next_question"
        /\ question_selection_strategy \notin {"maximum_information", "closest_difficulty"}
        /\ \E i \in DOMAIN args.available_questions :
               args.available_questions[i].id \notin args.answered_questions)
    => /\ result.kind = "item"
       /\ \E i \in DOMAIN args.available_questions :
              /\ args.available_questions[i] = result.item
              /\ result.item.id \notin args.answered_questions

\* C8: any item select_next_question returns is an element of the candidate
\* list and its id is not among the administered ids; a candidate is
\* filtered out by its id only, so under closest_difficulty a pool with a
\* candidate whose id is not administered always yields an item.
C8_ReturnedItemIsUnansweredCandidate ==
    op = "select_next_question"
    => /\ result.kind = "item"
          => /\ \E i \in DOMAIN args.available_questions :
                     args.available_questions[i] = result.item
             /\ result.item.id \notin args.answered_questions
       /\ ( /\ question_selection_strategy = "closest_difficulty"
            /\ \E i \in DOMAIN args.available_questions :
                   args.available_questions[i].id \notin args.answered_questions )
          => result.kind = "item"

\* C8 witness: the item returned has the same content as an administered
\* candidate of the pool, under another id.
C8_Witness ==
    /\ op = "select_next_question"
    /\ result.kind = "item"
    /\ \E i \in DOMAIN args.available_questions :
           LET q == args.available_questions[i]
           IN  /\ q.id \in args.answered_questions
               /\ q.id # result.item.id
               /\ [k \in DOMAIN q \ {"id"} |-> q[k]]
                      = [k \in DOMAIN result.item \ {"id"} |-> result.item[k]]

\* C9: under maximum_information the returned item has Fisher information
\* at the current ability >= that of every unanswered candidate, and
\* strictly greater than that of every unanswered candidate before it in
\* the pool (it is the first of those tied for the maximum).
C9_MaximumInformationFirstOfBest ==
    (op = "select_next_question"
        /\ question_selection_strategy = "maximum_information"
        /\ result.kind = "item")
    => LET pool == args.available_questions
           info(q) == InformationBounds(args.current_ability, q)
           best == info(result.item)
           a(q) == Get(q, "discrimination", DefaultDiscrimination)
           b(q) == Get(q, "difficulty", DefaultDifficulty)
           c(q) == Get(q, "guessing", DefaultGuessing)
           d(q) == Get(q, "upper_asymptote", DefaultUpperAsymptote)
           same(q) == /\ a(q) = a(result.item) /\ b(q) = b(result.item)
                      /\ c(q) = c(result.item) /\ d(q) = d(result.item)
       IN  \A i \in DOMAIN pool :
               pool[i].id \notin args.answered_questions
               => /\ \/ same(pool[i])
                     \/ info(pool[i]).hi[1] * best.lo[2]
                            <= best.lo[1] * info(pool[i]).hi[2]
                  /\ pool[i].id < result.item.id
                     => info(pool[i]).hi[1] * best.lo[2]
                            < best.lo[1] * info(pool[i]).hi[2]

\* C9 witness: the returned item ties for the maximum with a later
\* unanswered candidate and beats an earlier one.
C9_Witness ==
    /\ op = "select_next_question"
    /\ question_selection_strategy = "maximum_information"
    /\ result.kind = "item"
    /\ LET pool == args.available_questions
           info(q) == InformationBounds(args.current_ability, q)
       IN  /\ \E i \in DOMAIN pool :
                  /\ pool[i].id > result.item.id
                  /\ pool[i].id \notin args.answered_questions
                  /\ [k \in DOMAIN pool[i] \ {"id"} |-> pool[i][k]]
                         = [k \in DOMAIN result.item \ {"id"} |-> result.item[k]]
           /\ \E i \in DOMAIN pool :
                  /\ pool[i].id < result.item.id
                  /\ pool[i].id \notin args.answered_questions
                  /\ info(pool[i]).lo # <<0, 1>>

\* C10: under closest_difficulty the returned item minimises
\* |difficulty_score - theta| over the unanswered candidates, a missing
\* difficulty_score counting as 50, and every unanswered candidate before
\* it in the pool is strictly farther (it is the first of those tied).
C10_ClosestDifficultyFirstOfNearest ==
    (op = "select_next_question"
        /\ question_selection_strategy = "closest_difficulty"
        /\ result.kind = "item")
    => LET pool == args.available_questions
           score(q) == IF "difficulty_score" \in DOMAIN q
                       THEN q.difficulty_score[1] ELSE 50
           dist(q) == AbsInt(score(q) - args.current_ability[1])
       IN  \A i \in DOMAIN pool :
               pool[i].id \notin args.answered_questions
               => /\ dist(result.item) <= dist(pool[i])
                  /\ pool[i].id < result.item.id
                     => dist(result.item) < dist(pool[i])

\* C10 witness: the returned item has no difficulty_score, is nearer than
\* an earlier unanswered candidate and ties with a later one.
C10_Witness ==
    /\ op = "select_next_question"
    /\ question_selection_strategy = "closest_difficulty"
    /\ result.kind = "item"
    /\ "difficulty_score" \notin DOMAIN result.item
    /\ LET pool == args.available_questions
           score(q) == IF "difficulty_score" \in DOMAIN q
                       THEN q.difficulty_score[1] ELSE 50
           dist(q) == AbsInt(score(q) - args.current_ability[1])
       IN  /\ \E i \in DOMAIN pool :
                  /\ pool[i].id > result.item.id
                  /\ pool[i].id \notin args.answered_questions
                  /\ dist(pool[i]) = dist(result.item)
           /\ \E i \in DOMAIN pool :
                  /\ pool[i].id < result.item.id
                  /\ pool[i].id \notin args.answered_questions

---------------------------------------------------------------------------
(* Claims about the Fisher information *)

\* C11 (as claimed): under maximum_information, when the unanswered
\* candidates all have c = 0, d = 1 and one discrimination, and one of them
\* has its difficulty at the current ability while another has not,
\* select_next_question returns a candidate whose difficulty is the
\* current ability.
C11_PrefersItemAtAbility ==
    (op = "select_next_question"
        /\ question_selection_strategy = "maximum_information"
        /\ LET pool == args.available_questions
               open == { i \in DOMAIN pool : pool[i].id \notin args.answered_questions }
           IN  /\ \A i \in open :
                      /\ Get(pool[i], "guessing", DefaultGuessing) = Zero
                      /\ Get(pool[i], "upper_asymptote", DefaultUpperAsymptote) = One
               /\ \A i, j \in open :
                      Get(pool[i], "discrimination", DefaultDiscrimination)
                          = Get(pool[j], "discrimination", DefaultDiscrimination)
               /\ \E i \in open :
                      Get(pool[i], "difficulty", DefaultDifficulty) = args.current_ability
               /\ \E i \in open :
                      Get(pool[i], "difficulty", DefaultDifficulty) # args.current_ability)
    => /\ result.kind = "item"
       /\ Get(result.item, "difficulty", DefaultDifficulty) = args.current_ability

---------------------------------------------------------------------------
(* Claims about the errors surfaced to the caller *)

\* C12 (as claimed): when the responses and the questions passed to
\* estimate_ability, calculate_standard_error or should_terminate differ in
\* length, the call raises instead of returning a value.
C12_MismatchedLengthsFail ==
    (op \in {"estimate_ability", "calculate_standard_error", "should_terminate"}
        /\ Len(args.responses) # Len(args.questions))
    => result.kind # "value"

\* C13 (as claimed): when an administered item has parameters outside
\* 0 <= c <= d <= 1, estimate_ability raises instead of returning a number.
C13_InvalidParametersFail ==
    (op = "estimate_ability"
        /\ \E i \in DOMAIN args.questions :
               /\ i <= Len(args.responses)
               /\ LET c == Get(args.questions[i], "guessing", DefaultGuessing)
                      d == Get(args.questions[i], "upper_asymptote", DefaultUpperAsymptote)
                  IN  ~(Leq(Zero, c) /\ Leq(c, d) /\ Leq(d, One)))
    => result.kind # "value"

\* C14 (as claimed): when every item involved has a >= 0 and
\* 0 <= c <= d <= 1, the boundaries c = d = 0 and c = d = 1 included,
\* estimate_ability, calculate_information and calculate_standard_error
\* return a value: none raises ZeroDivisionError.
C14_ValidItemsNeverDivideByZero ==
    LET Valid(q) ==
            LET a == Get(q, "discrimination", DefaultDiscrimination)
                c == Get(q, "guessing", DefaultGuessing)
                d == Get(q, "upper_asymptote", DefaultUpperAsymptote)
            IN  Leq(Zero, a) /\ Leq(Zero, c) /\ Leq(c, d) /\ Leq(d, One)
    IN  /\ (op \in {"estimate_ability", "calculate_standard_error"}
              /\ \A i \in DOMAIN args.questions : Valid(args.questions[i]))
           => result.kind = "value"
        /\ (op = "calculate_information" /\ Valid(args.question))
           => result.kind = "value"

\* C15 (as claimed): when every administered item has discrimination 0, so
\* that the Fisher information summed over them is 0, calculate_standard_error
\* returns 1.0 and nothing on the way, the ability estimate included,
\* divides by zero.
C15_ZeroInformationGivesOne ==
    (op = "calculate_standard_error"
        /\ args.responses # <<>>
        /\ Len(args.questions) = Len(args.responses)
        /\ \A i \in DOMAIN args.questions :
               Get(args.questions[i], "discrimination", DefaultDiscrimination) = Zero)
    => result = Val(One)

---------------------------------------------------------------------------
(* Claims about the Newton-Raphson loop *)

\* C16: estimate_ability terminates: it begins at most max_iterations (50)
\* iterations, and every step of a running call strictly decreases the
\* measure 3 * (50 - iteration) + (position in the loop body), which is
\* never negative, so no call runs forever; it breaks as soon as
\* abs(second_derivative) < tolerance, returning the theta it has without
\* an update, and as soon as the update would move theta by less than the
\* tolerance.
C16_EstimateTerminates ==
    [][ LET Running(n) == n.pc \in {"for", "sums", "check"}
            Measure(n) == 3 * (max_iterations - n.iteration)
                              + (CASE n.pc = "for" -> 3 [] n.pc = "sums" -> 2
                                   [] n.pc = "check" -> 1 [] OTHER -> 0)
            IsFlat(n) == /\ n.second_derivative[1] * 1000 < n.second_derivative[2]
                         /\ -n.second_derivative[1] * 1000 < n.second_derivative[2]
            SmallStep(n) == LET step == Div(n.first_derivative, n.second_derivative)
                            IN  step[1] * 1000 < step[2] /\ -step[1] * 1000 < step[2]
        IN  /\ newton'.iteration <= max_iterations
            /\ Measure(newton') >= 0
            /\ Running(newton) => Measure(newton') < Measure(newton)
            /\ (newton.pc = "check" /\ IsFlat(newton))
                   => /\ newton'.pc = "returned"
                      /\ newton'.theta = newton.theta
                      /\ newton'.iteration = newton.iteration
                      /\ result' = Val(newton.theta)
            /\ (newton.pc = "check" /\ ~IsFlat(newton) /\ SmallStep(newton))
                   => /\ newton'.pc = "returned"
                      /\ newton'.iteration = newton.iteration ]_vars

\* C16 witness: a call has returned because the range of 50 iterations was
\* exhausted.
C16_Witness ==
    /\ newton.pc = "returned"
    /\ newton.iteration = max_iterations

---------------------------------------------------------------------------
(* Claims about hidden state *)

\* C17: calling estimate_ability, or calculate_standard_error, again with
\* the same responses and questions yields the outcome the earlier calls
\* with them yielded (the same theta, the same standard error, the same
\* exception), whatever calls went before and whatever was done to the
\* engine's strategy in between; and no step of such a call changes the
\* engine's attributes.
C17_RepeatedCallsAgree ==
    [][ /\ \A i, j \in DOMAIN session'.noted :
               session'.noted[i].op = session'.noted[j].op
                   => session'.noted[i].result = session'.noted[j].result
        /\ op' \in {"estimate_ability", "calculate_standard_error"}
               => /\ question_selection_strategy' = question_selection_strategy
                  /\ termination_criteria' = termination_criteria ]_vars

\* C17 witness: two calls of estimate_ability with the same arguments have
\* both returned an estimate other than the initial 0.0, the second on an
\* engine whose strategy was changed after the first.
C17_Witness ==
    /\ Len(session.noted) >= 2
    /\ session.noted[1].op = "estimate_ability"
    /\ session.noted[2].op = "estimate_ability"
    /\ session.noted[1].result.kind = "value"
    /\ session.noted[1].result.value # Zero
    /\ session.noted[2].strategy # session.noted[1].strategy

\* C18 (as claimed): the outcome of every select_next_question and
\* should_terminate call is determined by the call's explicit arguments:
\* it is the outcome the same call has on a newly constructed engine,
\* whatever has been done to the shared instance in between.
C18_OutcomeDependsOnArgumentsOnly ==
    /\ op = "select_next_question"
           => result = select_next_question(InitialStrategy, args.current_ability,
                                            args.available_questions,
                                            args.answered_questions)
    /\ op = "should_terminate"
           => result = should_terminate(args.responses, args.questions,
                                        args.max_questions, InitialCriteria)

---------------------------------------------------------------------------
(* Claims about the psychometric update *)

\* C19: after update_psychometrics with a non-empty batch of n responses
\* the document's difficulty is (number of correct responses) / n, whatever
\* it was before.
C19_DifficultyIsProportionCorrect ==
    (op = "update_psychometrics" /\ args.responses # <<>>)
    => LET correct == Cardinality({ i \in DOMAIN args.responses :
                                      /\ "is_correct" \in DOMAIN args.responses[i]
                                      /\ args.responses[i].is_correct })
           difficulty == question_document.psychometrics.difficulty
       IN  /\ result.kind = "None"
           /\ difficulty[1] * Len(args.responses) = correct * difficulty[2]

\* C19 witness: a batch of three responses, two of them correct, has set
\* the difficulty to 2/3.
C19_Witness ==
    /\ op = "update_psychometrics"
    /\ Len(args.responses) = 3
    /\ Cardinality({ i \in DOMAIN args.responses :
                        /\ "is_correct" \in DOMAIN args.responses[i]
                        /\ args.responses[i].is_correct }) = 2
    /\ question_document.psychometrics.difficulty = <<2, 3>>

\* C20: update_psychometrics with an empty batch raises nothing and leaves
\* the whole document (difficulty, discrimination, guessing,
\* upper_asymptote, usage statistics) as it was.
C20_EmptyBatchIsNoOp ==
    [][ (op' = "update_psychometrics" /\ args'.responses = <<>>)
        => /\ result' = NoItem
           /\ question_document' = question_document ]_vars

\* C20 witness: an empty batch has been applied to a document whose
\* psychometrics and usage statistics are no longer the defaults.
C20_Witness ==
    /\ op = "update_psychometrics"
    /\ args.responses = <<>>
    /\ question_document.psychometrics # NewQuestion.psychometrics
    /\ question_document.usage_stats.times_used > 0

\* C21 (as claimed): for a batch of n responses that each carry the
\* examinee's ability under ability_at_time, update_psychometrics sets the
\* discrimination to (correct among the ceil(n/3) responses of highest
\* ability) / ceil(n/3) - (correct among the floor(n/3) responses of lowest
\* ability) / floor(n/3), ties broken either way, when floor(n/3) > 0, and
\* leaves the discrimination as it was for n = 1 and n = 2.
C21_DiscriminationFromAbilityThirds ==
    [][ ( /\ op' = "update_psychometrics"
          /\ args'.responses # <<>>
          /\ \A i \in DOMAIN args'.responses :
                 "ability_at_time" \in DOMAIN args'.responses[i] )
        => LET responses == args'.responses
               n == Len(responses)
               top_size == (n + 2) \div 3
               bottom_size == n \div 3
               ability(i) == responses[i].ability_at_time
               correct(S) == Cardinality({ i \in S :
                                            /\ "is_correct" \in DOMAIN responses[i]
                                            /\ responses[i].is_correct })
               Highest(S) == /\ Cardinality(S) = top_size
                             /\ \A i \in S, j \in (1..n) \ S :
                                    Leq(ability(j), ability(i))
               Lowest(S) == /\ Cardinality(S) = bottom_size
                            /\ \A i \in S, j \in (1..n) \ S :
                                   Leq(ability(i), ability(j))
           IN  IF bottom_size > 0
               THEN \E T \in SUBSET (1..n), B \in SUBSET (1..n) :
                        /\ Highest(T)
                        /\ Lowest(B)
                        /\ question_document'.psychometrics.discrimination
                             = Sub(Rat(correct(T), top_size),
                                   Rat(correct(B), bottom_size))
               ELSE question_document'.psychometrics.discrimination
                        = question_document.psychometrics.discrimination ]_vars

\* C23 (as claimed): after any sequence of update_psychometrics and
\* update_usage_stats calls on a question that satisfied it at first, the
\* item invariant holds: discrimination >= 0 and
\* 0 <= guessing <= upper_asymptote <= 1.
C23_ItemInvariant ==
    LET item == question_document.psychometrics
    IN  /\ Leq(Zero, item.discrimination)
        /\ Leq(Zero, item.guessing)
        /\ Leq(item.guessing, item.upper_asymptote)
        /\ Leq(item.upper_asymptote, One)

\* C30: update_psychometrics changes nothing of the document but
\* psychometrics.difficulty and psychometrics.discrimination (guessing,
\* upper_asymptote, difficulty_score and usage_stats stay as they were);
\* after a non-empty batch the difficulty lies in [0, 1], and the
\* discrimination, when the batch is long enough to update it (three
\* responses or more), lies in [-1, 1].
C30_UpdateTouchesDifficultyAndDiscriminationOnly ==
    [][ op' = "update_psychometrics"
        => LET old == question_document
               new == question_document'
           IN  /\ new.psychometrics.guessing = old.psychometrics.guessing
               /\ new.psychometrics.upper_asymptote = old.psychometrics.upper_asymptote
               /\ new.difficulty_score = old.difficulty_score
               /\ new.usage_stats = old.usage_stats
               /\ DOMAIN new = DOMAIN old
               /\ DOMAIN new.psychometrics = DOMAIN old.psychometrics
               /\ args'.responses # <<>>
                      => /\ Leq(Zero, new.psychometrics.difficulty)
                         /\ Leq(new.psychometrics.difficulty, One)
               /\ Len(args'.responses) >= 3
                      => /\ Leq(Neg(One), new.psychometrics.discrimination)
                         /\ Leq(new.psychometrics.discrimination, One) ]_vars

\* C30 witness: a batch of three responses has moved the difficulty to
\* 2/3 and the discrimination to the end of its range, -1, on a question
\* that has been used.
C30_Witness ==
    /\ op = "update_psychometrics"
    /\ Len(args.responses) = 3
    /\ question_document.psychometrics.difficulty = <<2, 3>>
    /\ question_document.psychometrics.discrimination = <<-1, 1>>
    /\ question_document.usage_stats.times_used > 0

---------------------------------------------------------------------------
(* Claims about the usage statistics *)

\* C22: every update_usage_stats call adds exactly 1 to times_used, adds 1
\* to correct_answers if the response is correct and nothing otherwise, and
\* leaves an average_time_spent with
\* average * n = old average * (n - 1) + time_spent, n the new times_used.
C22_UsageStatsStep ==
    [][ op' = "update_usage_stats"
        => LET old == question_document.usage_stats
               new == question_document'.usage_stats
               n == new.times_used
           IN  /\ n = old.times_used + 1
               /\ new.correct_answers
                    = old.correct_answers + (IF args'.is_correct THEN 1 ELSE 0)
               /\ Mul(new.average_time_spent, <<n, 1>>)
                    = Add(Mul(old.average_time_spent, <<n - 1, 1>>),
                          args'.time_spent) ]_vars

\* C22 witness: the second call, for an incorrect response that took 3
\* after a correct one that took 1, has left the average at 2.
C22_Witness ==
    /\ op = "update_usage_stats"
    /\ ~args.is_correct
    /\ args.time_spent = <<3, 1>>
    /\ question_document.usage_stats.times_used = 2
    /\ question_document.usage_stats.correct_answers = 1
    /\ question_document.usage_stats.average_time_spent = <<2, 1>>

\* C28: after any sequence of update_usage_stats calls on a new question,
\* times_used is the number of calls, correct_answers is the number of
\* calls for a correct response and lies between 0 and times_used, and
\* average_time_spent * times_used is the sum of the times spent.
C28_UsageStatsAreTheTallies ==
    LET stats == question_document.usage_stats
    IN  /\ stats.times_used = usage_calls.calls
        /\ stats.correct_answers = usage_calls.correct
        /\ 0 <= stats.correct_answers
        /\ stats.correct_answers <= stats.times_used
        /\ Mul(stats.average_time_spent, <<stats.times_used, 1>>)
             = usage_calls.time_spent

\* C28 witness: two calls, one of them for a correct response, with the
\* times 1 and 3.
C28_Witness ==
    /\ usage_calls.calls = 2
    /\ usage_calls.correct = 1
    /\ usage_calls.time_spent = <<4, 1>>
    /\ question_document.usage_stats.average_time_spent = <<2, 1>>

---------------------------------------------------------------------------
(* Claims about the caller's lists *)

\* C24: a call of estimate_ability, calculate_standard_error,
\* should_terminate, select_next_question or update_psychometrics is
\* passed the caller's own lists and leaves them as they were: the same
\* response records and the same questions, in the same order.
C24_CallsLeaveTheListsAlone ==
    [][ /\ op' \in {"estimate_ability", "calculate_standard_error", "should_terminate"}
           => /\ args'.responses = session.responses
              /\ args'.questions = session.pool
              /\ session'.responses = session.responses
              /\ session'.pool = session.pool
        /\ op' = "select_next_question"
           => /\ args'.available_questions = session.pool
              /\ session'.responses = session.responses
              /\ session'.pool = session.pool
        /\ op' = "update_psychometrics"
           => /\ args'.responses = session.responses
              /\ session'.responses = session.responses
              /\ session'.pool = session.pool ]_vars

\* C24 witness: update_psychometrics has been passed three response
\* records that are not in descending order of ability, has changed the
\* document, and the records are in the caller's order still.
C24_Witness ==
    /\ op = "update_psychometrics"
    /\ Len(args.responses) = 3
    /\ args.responses # SortedDescending(args.responses, 1, <<>>)
    /\ question_document.psychometrics # NewQuestion.psychometrics
    /\ session.responses = args.responses

---------------------------------------------------------------------------
(* Claims about a session's termination *)

\* C25: a should_terminate call without max_questions that returns
\* decides with max_questions = 50, min_questions = 10 and
\* standard_error_threshold = 0.3 (0.09 on the squared standard error):
\* its reasons are max_questions_reached iff the history has 50 responses
\* or more, then sufficient_precision iff it has 10 or more and the
\* standard error is within the threshold, its flag is set iff there is a
\* reason; and that whatever confidence_threshold the configuration holds.
C25_DefaultCriteriaDecide ==
    (op = "should_terminate" /\ args.max_questions = None /\ result.kind = "value")
    => LET n == Len(args.responses)
           se_squared == result.standard_error
           reached == n >= 50
           precise == n >= 10 /\ se_squared[1] * 100 <= 9 * se_squared[2]
       IN  /\ result.reasons
                = (IF reached THEN <<"max_questions_reached">> ELSE <<>>)
                  \o (IF precise THEN <<"sufficient_precision">> ELSE <<>>)
           /\ result.should_terminate = (reached \/ precise)
           /\ result.num_questions = n

\* C25 witness: under a confidence_threshold other than the default 0.95
\* a history of 10 responses has been found precise enough, short of the
\* 50 questions.
C25_Witness ==
    /\ op = "should_terminate"
    /\ args.max_questions = None
    /\ termination_criteria.confidence_threshold # InitialCriteria.confidence_threshold
    /\ Len(args.responses) = 10
    /\ result.kind = "value"
    /\ result.reasons = <<"sufficient_precision">>

\* C26 (as claimed): once the history of a session holds max_questions
\* responses (the session's own limit, 50 without one), and for every
\* longer history, should_terminate tells the session to terminate.
C26_ToldToTerminateAtMaxQuestions ==
    LET limit == IF args.max_questions = None THEN 50
                 ELSE CHOOSE n \in args.max_questions : TRUE
    IN  (op = "should_terminate" /\ Len(args.responses) >= limit)
        => /\ result.kind = "value"
           /\ result.should_terminate

\* C27 (as claimed): in a session that administers what
\* select_next_question returns under maximum_information or
\* closest_difficulty, no id is administered twice; and on a pool of N
\* questions with distinct ids and non-zero information (a # 0 and c # d)
\* the call returns a question as long as fewer than N have been
\* administered, and None once all N have been.
C27_AdministersEachItemOnce ==
    LET administered == session.administered
        pool == session.pool
    IN  /\ \A i \in DOMAIN administered, j \in DOMAIN administered :
               i # j => administered[i] # administered[j]
        /\ ( /\ op = "select_next_question"
             /\ question_selection_strategy
                    \in {"maximum_information", "closest_difficulty"}
             /\ \A i \in DOMAIN pool :
                    /\ Get(pool[i], "discrimination", DefaultDiscrimination) # Zero
                    /\ Get(pool[i], "guessing", DefaultGuessing)
                           # Get(pool[i], "upper_asymptote", DefaultUpperAsymptote) )
           => IF Cardinality(args.answered_questions) < Len(pool)
              THEN /\ result.kind = "item"
                   /\ administered[Len(administered)] = result.item.id
                   /\ result.item.id \notin args.answered_questions
              ELSE result.kind = "None"

---------------------------------------------------------------------------
(* Claims about the assessment's ability estimate *)

\* C29 (as claimed): every update_ability_estimation call adds its
\* adjustment (+0.1 or -0.1, times 0.5 for easy, 1.0 for medium, 1.5
\* otherwise) to the running estimate, which is initial_ability before the
\* first call and final_ability afterwards, also when that final_ability
\* is exactly 0; the call appends exactly one ability_history entry, and
\* final_ability is the ability of the last entry.
C29_FinalAbilityIsInitialPlusAdjustments ==
    [][ op' = "update_ability_estimation"
        => LET old == adaptive_data
               new == adaptive_data'
               running == IF old.ability_history = <<>>
                          THEN old.initial_ability ELSE old.final_ability
               step == IF args'.is_correct THEN 1 ELSE -1
               twentieths == IF args'.difficulty = "easy" THEN 1
                             ELSE IF args'.difficulty = "medium" THEN 2 ELSE 3
               n == Len(new.ability_history)
           IN  /\ new.final_ability = Add(running, Rat(step * twentieths, 20))
               /\ new.initial_ability = old.initial_ability
               /\ n = Len(old.ability_history) + 1
               /\ SubSeq(new.ability_history, 1, n - 1) = old.ability_history
               /\ new.ability_history[n].ability = new.final_ability ]_vars

=============================================================================
